---- MODULE Spec2Model ----
(***************************************************************************)
(* The tool-call loop of lazyllm.agent.FuncCallAgent (FuncCallAgent._run)  *)
(* as a state machine.  One action per suspension point or call of the     *)
(* generator: the loop test and the model call, the fetch-and-yield of a   *)
(* fragment, the folding of the fragment into the history, the call and    *)
(* the return of a tool, the resumption after a yielded tool message, the  *)
(* end of a batch and the end of the stream.                               *)
(***************************************************************************)
EXTENDS Naturals, Integers, Sequences, FiniteSets, TLC

VARIABLES
    caller_history,     \* the list object the caller passed as llm_chat_history
    llm_chat_history,   \* the local llm_chat_history of _run (line 43)
    last_role,          \* line 44
    content_cache,      \* line 44, a list of strings
    tool_call_counter,  \* line 46
    pc,                 \* position of the generator
    response,           \* the loop variable of line 49
    pending,            \* the tool calls of line 65 not yet dispatched
    tool_call,          \* the loop variable of line 65
    backend,            \* the model backend: the fragments it may emit and how many
    orig_history,       \* what caller_history held when the caller built it
    invocation,         \* number of the invocation of _run
    received,           \* fragments the backend produced in this invocation
    yielded,            \* values the generator yielded in this invocation
    tool_log,           \* call and return events of _call_tool
    model_calls,        \* number of _call_llm calls of this invocation
    frags_in_round,     \* fragments of the current model call
    dispatch_rounds,    \* model calls in which a tool call was dispatched
    round_dispatched,   \* the current model call has dispatched a tool call
    one_tool_each,      \* every model call so far was answered by one tool request with a result
    failure,            \* the exception that ended the invocation
    submodules,         \* module.py line 16: self.submodules of every unit
    unit_class,         \* the class of every unit
    unit_mode,          \* module.py lines 282-284: self._mode of every unit
    evalset,            \* module.py line 17: self._evalset of every unit is set
    entry,              \* the method the caller called: update, update_server, start, restart
    mode,               \* module.py line 51
    recursive,          \* module.py line 51
    stack,              \* module.py line 55
    train_tasks,        \* module.py line 54
    deploy_tasks,       \* module.py line 54
    eval_tasks,         \* module.py line 54
    upc,                \* position of the caller and of update
    asked,              \* the units that returned their three descriptors, in the order of the calls
    getter_calls,       \* the getters that were called, in the order of the calls
    launched,           \* per phase, the number of tasks that were started
    started,            \* the phases for which a batch was started
    completed           \* per phase, the number of started tasks that have finished

agent_vars == <<caller_history, llm_chat_history, last_role, content_cache,
                tool_call_counter, pc, response, pending, tool_call, backend,
                orig_history, invocation, received, yielded, tool_log, model_calls,
                frags_in_round, dispatch_rounds, round_dispatched, one_tool_each,
                failure>>

update_vars == <<submodules, unit_class, unit_mode, evalset, entry, mode, recursive,
                 stack, train_tasks, deploy_tasks, eval_tasks, upc, asked,
                 getter_calls, launched, started, completed>>

vars == <<agent_vars, update_vars>>

(***************************************************************************)
(* Bounds and constants                                                    *)
(***************************************************************************)
MAX_CONSECUTIVE_TOOL_CALL_NUM == 2

\* fragments the backend emits in one invocation, all model calls together
MaxFragments == 2

\* the count of model calls is kept up to this number and saturates there
MaxModelCalls == 4

(***************************************************************************)
(* Values                                                                  *)
(***************************************************************************)
NoneVal == "None"

ASSISTANT == "assistant"

TOOL == "tool"

USER == "user"

\* Message(role=..., content=..., name=..., tool_call_id=..., tool_calls=...)
Message(role, content, name, tool_call_id, tool_calls) ==
    [role |-> role, content |-> content, name |-> name,
     tool_call_id |-> tool_call_id, tool_calls |-> tool_calls]

ToolCallRequest(id) ==
    [id |-> id, function |-> [name |-> "tool_" \o id, arguments |-> "args_" \o id]]

Fragment(role, content, tool_calls) ==
    [role |-> role, content |-> content, tool_calls |-> tool_calls]

\* Python truth of a str-or-None value: None and "" are false
Truthy(v) == v # NoneVal /\ v # ""

RECURSIVE Join(_)
\* "".join(content_cache)
Join(cache) == IF cache = <<>> THEN "" ELSE Head(cache) \o Join(Tail(cache))

(***************************************************************************)
(* The environment: the caller's histories, the model backend, the tools   *)
(***************************************************************************)
TcA == <<ToolCallRequest("A")>>

TcABC == <<ToolCallRequest("A"), ToolCallRequest("B"), ToolCallRequest("C")>>

UserTurn == Message(USER, "q", NoneVal, NoneVal, <<>>)

\* the histories a caller passes: empty, one user turn, and one that ends
\* with the tool turn of an earlier exchange
CallerHistories ==
    { <<>>,
      <<UserTurn>>,
      <<UserTurn, Message(ASSISTANT, "", NoneVal, NoneVal, TcA),
        Message(TOOL, "res_tool_A", "tool_A", "A", <<>>)>> }

\* fragments with and without a role, a text and tool requests
GeneralFragments ==
    { Fragment(NoneVal, "", <<>>),          \* nothing to fold
      Fragment(NoneVal, "Hi", <<>>),        \* text for the open turn
      Fragment(NoneVal, NoneVal, TcA),      \* a request in the open role
      Fragment(ASSISTANT, "Hi", <<>>),      \* a new assistant turn
      Fragment(ASSISTANT, NoneVal, TcA),    \* a request of the assistant
      Fragment(ASSISTANT, "Hi", TcA),       \* text and a request together
      Fragment(ASSISTANT, NoneVal, TcABC),  \* a batch of three requests
      Fragment(USER, "Hi", <<>>),           \* a turn of another role
      Fragment(USER, NoneVal, TcA) }        \* a request of another role

\* the fragment sequence of the round-trip property of the specification
RoundTripFragments ==
    << Fragment(ASSISTANT, "Hi", <<>>),
       Fragment(NoneVal, " there", <<>>),
       Fragment(ASSISTANT, NoneVal, TcABC) >>

\* a backend emits at most `limit` fragments in one invocation, each of them
\* any of `fragments`
GeneralBackend == [fragments |-> GeneralFragments, limit |-> MaxFragments]

RoundTripBackend ==
    [fragments |-> {RoundTripFragments[i] : i \in DOMAIN RoundTripFragments},
     limit |-> Len(RoundTripFragments)]

\* BaseAgent._call_tool(tool_name, tool_args): a result text, None, or an
\* exception of the dispatcher (UnknownTool, InvalidArguments)
ToolOutcomes == {"result", "none", "raise"}

ToolResult(tool_name, tool_args) == "res_" \o tool_name

NoFragment == Fragment(NoneVal, NoneVal, <<>>)

NoToolCall == [id |-> NoneVal, function |-> [name |-> NoneVal, arguments |-> NoneVal]]

\* ---------------------------------------------------------------------------
\* lazyllm.module: the composition of units and ModuleBase.update

\* the most values all submodules lists hold together
MaxAttach == 3

\* the units of the composition; update is called on ROOT
ROOT == "root"

Units == {ROOT, "child1", "child2"}

\* the assignments self.<name> = value the callers make: a unit is given to
\* the root or to a unit built before it, so that no unit contains itself
Assignable == {<<ROOT, "child1">>, <<ROOT, "child2">>, <<"child1", "child2">>}

\* what a unit is: a plain ModuleBase, a ModuleBase with an evalset, a
\* ServerModule, a TrainableModule in mode train or a TrainableModule whose
\* mode was never set
UnitProfiles ==
    { [class |-> "ModuleBase", mode |-> NoneVal, evalset |-> FALSE],
      [class |-> "ModuleBase", mode |-> NoneVal, evalset |-> TRUE],
      [class |-> "ServerModule", mode |-> NoneVal, evalset |-> FALSE],
      [class |-> "TrainableModule", mode |-> "train", evalset |-> FALSE],
      [class |-> "TrainableModule", mode |-> NoneVal, evalset |-> FALSE] }

Phases == {"train", "deploy", "eval"}

\* a task descriptor: the Pipeline a getter of the unit returned
Task(unit, phase) == [unit |-> unit, phase |-> phase]

\* the None a getter returns
NoDescriptor == Task(NoneVal, NoneVal)

\* line 288: raise RuntimeError('mode must be train or finetune')
RuntimeError == Task(NoneVal, "RuntimeError")

\* lines 28 and 279-288: ModuleBase returns None, TrainableModule a Pipeline
\* in the modes train and finetune and raises in every other mode
GetTrainTasks(unit) ==
    IF unit_class[unit] = "TrainableModule"
      THEN IF unit_mode[unit] \in {"train", "finetune"}
             THEN Task(unit, "train") ELSE RuntimeError
      ELSE NoDescriptor

\* lines 29, 173, 263 and 290
GetDeployTasks(unit) ==
    IF unit_class[unit] \in {"ServerModule", "TrainableModule"}
      THEN Task(unit, "deploy") ELSE NoDescriptor

\* lines 41-48: a Pipeline if self._evalset, else None
GetEvalTasks(unit) ==
    IF evalset[unit] THEN Task(unit, "eval") ELSE NoDescriptor

\* FlatList.absorb: None adds nothing, a descriptor is added at the end
Absorb(tasks, item) == IF item = NoDescriptor THEN tasks ELSE Append(tasks, item)

\* the children walked from the last one registered to the first
IterReversed(children) ==
    [i \in 1..Len(children) |-> children[Len(children) + 1 - i]]

\* lines 55 and 59: iter(top.submodules)
Iter(children) == children

\* before update is called no task exists
NoTasks == [phase \in Phases |-> 0]

\* the caller has built the units and attaches and calls next
Composing ==
    /\ \E profile \in [Units -> UnitProfiles] :
         /\ unit_class = [u \in Units |-> profile[u].class]
         /\ unit_mode = [u \in Units |-> profile[u].mode]
         /\ evalset = [u \in Units |-> profile[u].evalset]
    /\ submodules = [u \in Units |-> <<>>]
    /\ entry = NoneVal
    /\ mode = NoneVal
    /\ recursive = FALSE
    /\ stack = <<>>
    /\ train_tasks = <<>>
    /\ deploy_tasks = <<>>
    /\ eval_tasks = <<>>
    /\ upc = "compose"
    /\ asked = <<>>
    /\ getter_calls = <<>>
    /\ launched = NoTasks
    /\ started = {}
    /\ completed = NoTasks

\* no composition is under way
NotComposing ==
    /\ Composing
    /\ unit_class = [u \in Units |-> "ModuleBase"]
    /\ evalset = [u \in Units |-> FALSE]

Attached == Len(submodules[ROOT]) + Len(submodules["child1"]) + Len(submodules["child2"])

\* lines 19-22: __setattr__ with a value that is a ModuleBase
SetAttr ==
    /\ upc = "compose"
    /\ Attached < MaxAttach
    /\ \E assignment \in Assignable :
         submodules' = [submodules EXCEPT ![assignment[1]] = Append(@, assignment[2])]
    /\ UNCHANGED <<unit_class, unit_mode, evalset, entry, mode, recursive, stack, train_tasks,
                   deploy_tasks, eval_tasks, upc, asked, getter_calls, launched, started, completed>>
    /\ UNCHANGED agent_vars

\* lines 51-55: update(mode, recursive) called on the root
Update(update_mode, update_recursive) ==
    /\ upc = "compose"
    /\ update_mode \in {"train", "server"}
    /\ mode' = update_mode
    /\ recursive' = update_recursive
    /\ train_tasks' = <<>>
    /\ deploy_tasks' = <<>>
    /\ eval_tasks' = <<>>
    /\ stack' = << [unit |-> ROOT,
                    iter |-> Iter(IF update_recursive THEN submodules[ROOT] ELSE <<>>)] >>
    /\ upc' = "walk"
    /\ UNCHANGED <<submodules, unit_class, unit_mode, evalset, asked, getter_calls, launched, started, completed>>
    /\ UNCHANGED agent_vars

\* line 51: the caller calls update itself
CallUpdate ==
    /\ \E update_mode \in {"train", "server"}, update_recursive \in BOOLEAN :
         Update(update_mode, update_recursive)
    /\ entry' = "update"

\* line 73: update_server(recursive) is update(mode='server', recursive=recursive)
CallUpdateServer ==
    /\ \E update_recursive \in BOOLEAN : Update("server", update_recursive)
    /\ entry' = "update_server"

\* line 74: start() is update(mode='server', recursive=True)
CallStart ==
    /\ Update("server", TRUE)
    /\ entry' = "start"

\* line 75: restart() is start()
CallRestart ==
    /\ Update("server", TRUE)
    /\ entry' = "restart"

\* lines 57-59: the iterator on top of the stack has a next unit
Descend ==
    /\ upc = "walk"
    /\ stack[Len(stack)].iter # <<>>
    /\ LET top == Head(stack[Len(stack)].iter)
       IN  stack' = Append([stack EXCEPT ![Len(stack)].iter = Tail(@)],
                           [unit |-> top, iter |-> Iter(submodules[top])])
    /\ UNCHANGED <<submodules, unit_class, unit_mode, evalset, entry, mode, recursive,
                   train_tasks, deploy_tasks, eval_tasks, upc, asked, getter_calls, launched, started,
                   completed>>
    /\ UNCHANGED agent_vars

\* the train getter called in mode train only
AsksTrainInTrainMode == mode = "train"

\* line 62: top._get_train_tasks() is called whatever the mode is
AsksTrain == TRUE

\* lines 60-64 and 56: the iterator on top of the stack is exhausted; the unit
\* is popped and asked for its three descriptors; a getter that raises ends
\* update at once
Collect ==
    /\ upc = "walk"
    /\ stack[Len(stack)].iter = <<>>
    /\ LET top == stack[Len(stack)].unit
           train == IF AsksTrain THEN GetTrainTasks(top) ELSE NoDescriptor
           train_call == IF AsksTrain THEN <<Task(top, "train")>> ELSE <<>>
       IN  IF train = RuntimeError
             THEN /\ getter_calls' = getter_calls \o train_call
                  /\ upc' = "failed"
                  /\ UNCHANGED <<train_tasks, deploy_tasks, eval_tasks, asked>>
             ELSE /\ train_tasks' = Absorb(train_tasks, train)
                  /\ deploy_tasks' = Absorb(deploy_tasks, GetDeployTasks(top))
                  /\ eval_tasks' = Absorb(eval_tasks, GetEvalTasks(top))
                  /\ asked' = Append(asked, top)
                  /\ getter_calls' = getter_calls \o train_call
                                       \o <<Task(top, "deploy"), Task(top, "eval")>>
                  /\ upc' = IF Len(stack) = 1 THEN "train" ELSE "walk"
    /\ stack' = SubSeq(stack, 1, Len(stack) - 1)
    /\ UNCHANGED <<submodules, unit_class, unit_mode, evalset, entry, mode, recursive,
                   launched, started, completed>>
    /\ UNCHANGED agent_vars

\* Parallel(*tasks).start() and DPES(*tasks).start(): every task of the batch
\* is launched
StartBatch(phase, tasks) ==
    /\ launched' = [launched EXCEPT ![phase] = Len(tasks)]
    /\ started' = started \cup {phase}

\* .wait(): all tasks of the batch have finished
Waited(phase) == completed[phase] = launched[phase]

\* the train phase entered in every mode
TrainSelectedInAnyMode == Len(train_tasks) > 0

\* line 66
TrainSelected == mode = "train" /\ Len(train_tasks) > 0

\* line 68
DeploySelected == Len(deploy_tasks) > 0

\* line 70
EvalSelected == mode = "train" /\ Len(eval_tasks) > 0

\* lines 66-67: Parallel(*train_tasks).start()
TrainPhase ==
    /\ upc = "train"
    /\ IF TrainSelected
         THEN /\ StartBatch("train", train_tasks)
              /\ upc' = "train_wait"
         ELSE /\ upc' = "deploy"
              /\ UNCHANGED <<launched, started>>
    /\ UNCHANGED <<submodules, unit_class, unit_mode, evalset, entry, mode, recursive, stack,
                   train_tasks, deploy_tasks, eval_tasks, asked, getter_calls, completed>>
    /\ UNCHANGED agent_vars

\* line 67: .wait() returns
TrainWait ==
    /\ upc = "train_wait"
    /\ Waited("train")
    /\ upc' = "deploy"
    /\ UNCHANGED <<submodules, unit_class, unit_mode, evalset, entry, mode, recursive, stack,
                   train_tasks, deploy_tasks, eval_tasks, asked, getter_calls, launched, started,
                   completed>>
    /\ UNCHANGED agent_vars

\* lines 68-69: DPES(*deploy_tasks).start()
DeployPhase ==
    /\ upc = "deploy"
    /\ IF DeploySelected
         THEN StartBatch("deploy", deploy_tasks)
         ELSE UNCHANGED <<launched, started>>
    /\ upc' = "eval"
    /\ UNCHANGED <<submodules, unit_class, unit_mode, evalset, entry, mode, recursive, stack,
                   train_tasks, deploy_tasks, eval_tasks, asked, getter_calls, completed>>
    /\ UNCHANGED agent_vars

\* lines 70-71: DPES(*eval_tasks).start(), after which update returns
EvalPhase ==
    /\ upc = "eval"
    /\ IF EvalSelected
         THEN StartBatch("eval", eval_tasks)
         ELSE UNCHANGED <<launched, started>>
    /\ upc' = "returned"
    /\ UNCHANGED <<submodules, unit_class, unit_mode, evalset, entry, mode, recursive, stack,
                   train_tasks, deploy_tasks, eval_tasks, asked, getter_calls, completed>>
    /\ UNCHANGED agent_vars

\* a task that was launched finishes
TaskCompletes ==
    /\ \E phase \in Phases :
         /\ completed[phase] < launched[phase]
         /\ completed' = [completed EXCEPT ![phase] = @ + 1]
    /\ UNCHANGED <<submodules, unit_class, unit_mode, evalset, entry, mode, recursive, stack,
                   train_tasks, deploy_tasks, eval_tasks, upc, asked, getter_calls, launched, started>>
    /\ UNCHANGED agent_vars

(***************************************************************************)
(* FuncCallAgent._run                                                      *)
(***************************************************************************)
\* the local name stays bound to the caller's list (no copy at line 43)
HistoryIsAliased == FALSE

\* line 43: llm_chat_history = copy.deepcopy(llm_chat_history) makes the
\* local list an object of its own
HistoryIsCopied == TRUE

\* a write to the local list; it reaches the caller's list only when both
\* names are bound to one object
SetHistory(h) ==
    /\ llm_chat_history' = h
    /\ caller_history' = IF HistoryIsCopied THEN caller_history ELSE h

\* lines 43-46, for the caller history found in caller_history
Enter ==
    /\ llm_chat_history' = caller_history
    /\ UNCHANGED caller_history
    /\ last_role' = NoneVal
    /\ content_cache' = <<>>
    /\ tool_call_counter' = 0
    /\ pc' = "loop"
    /\ response' = NoFragment
    /\ pending' = <<>>
    /\ tool_call' = NoToolCall
    /\ received' = <<>>
    /\ yielded' = <<>>
    /\ tool_log' = <<>>
    /\ model_calls' = 0
    /\ frags_in_round' = 0
    /\ dispatch_rounds' = 0
    /\ round_dispatched' = FALSE
    /\ one_tool_each' = TRUE
    /\ failure' = NoneVal

\* the state after the caller has built its history and called _run
Start(model_backend) ==
    /\ orig_history \in CallerHistories
    /\ backend = model_backend
    /\ invocation = 1
    /\ caller_history = orig_history
    /\ llm_chat_history = caller_history
    /\ last_role = NoneVal
    /\ content_cache = <<>>
    /\ tool_call_counter = 0
    /\ pc = "loop"
    /\ response = NoFragment
    /\ pending = <<>>
    /\ tool_call = NoToolCall
    /\ received = <<>>
    /\ yielded = <<>>
    /\ tool_log = <<>>
    /\ model_calls = 0
    /\ frags_in_round = 0
    /\ dispatch_rounds = 0
    /\ round_dispatched = FALSE
    /\ one_tool_each = TRUE
    /\ failure = NoneVal

Init == Start(GeneralBackend) /\ NotComposing

InitRoundTrip == Start(RoundTripBackend) /\ NotComposing

\* the loop test with <= in the place of <
LoopConditionInclusive == tool_call_counter <= MAX_CONSECUTIVE_TOOL_CALL_NUM

\* line 47: while tool_call_counter < MAX_CONSECUTIVE_TOOL_CALL_NUM
LoopCondition == tool_call_counter < MAX_CONSECUTIVE_TOOL_CALL_NUM

\* lines 47-48: the loop test and, when it passes, the model call
CallModel ==
    /\ UNCHANGED update_vars
    /\ pc = "loop"
    /\ IF LoopCondition
         THEN /\ pc' = "iter"
              /\ model_calls' = IF model_calls < MaxModelCalls
                                  THEN model_calls + 1 ELSE model_calls
         ELSE /\ pc' = "done"
              /\ UNCHANGED model_calls
    /\ frags_in_round' = 0
    /\ round_dispatched' = FALSE
    /\ UNCHANGED <<caller_history, llm_chat_history, last_role, content_cache,
                   tool_call_counter, response, pending, tool_call, backend,
                   orig_history, invocation, received, yielded, tool_log,
                   dispatch_rounds, one_tool_each, failure>>

\* a yield that passes on the text of the fragment only
ForwardTextOnly(fragment) == Fragment(NoneVal, fragment.content, <<>>)

\* line 50: yield response
Forward(fragment) == fragment

\* lines 49-50: the backend produces the next fragment and the generator
\* yields it; the generator is then suspended at line 50
NextFragment ==
    /\ UNCHANGED update_vars
    /\ pc = "iter"
    /\ Len(received) < backend.limit
    /\ \E fragment \in backend.fragments :
         /\ response' = fragment
         /\ received' = Append(received, fragment)
         /\ yielded' = Append(yielded, [kind |-> "fragment", value |-> Forward(fragment)])
    /\ frags_in_round' = frags_in_round + 1
    /\ pc' = "fragment"
    /\ UNCHANGED <<caller_history, llm_chat_history, last_role, content_cache,
                   tool_call_counter, pending, tool_call, backend, orig_history,
                   invocation, tool_log, model_calls, dispatch_rounds,
                   round_dispatched, one_tool_each, failure>>

\* the open content closed under the role that arrives
FoldRoleNewRole(state, role) ==
    IF Truthy(role)
      THEN [history |-> IF state.cache # <<>>
                          THEN Append(state.history,
                                      Message(role, Join(state.cache),
                                              NoneVal, NoneVal, <<>>))
                          ELSE state.history,
            cache |-> <<>>,
            last_role |-> role]
      ELSE state

\* lines 52-56: a fragment with a role closes the open content
FoldRole(state, role) ==
    IF Truthy(role)
      THEN [history |-> IF state.cache # <<>>
                          THEN Append(state.history,
                                      Message(state.last_role, Join(state.cache),
                                              NoneVal, NoneVal, <<>>))
                          ELSE state.history,
            cache |-> <<>>,
            last_role |-> role]
      ELSE state

\* lines 57-59
FoldContent(state, content) ==
    IF Truthy(content)
      THEN [state EXCEPT !.cache = Append(state.cache, content)]
      ELSE state

\* the assertion of line 62 left out
RoleContextUnchecked(role) == TRUE

\* line 62: assert last_role == ASSISTANT
RoleContextOk(role) == role = ASSISTANT

\* the turn of line 63 built without its tool_calls
FoldToolCallsDropped(state, tool_calls) ==
    [history |-> Append(state.history,
                        Message(ASSISTANT, Join(state.cache), NoneVal, NoneVal, <<>>)),
     cache |-> <<>>,
     last_role |-> state.last_role]

\* lines 63-64
FoldToolCalls(state, tool_calls) ==
    [history |-> Append(state.history,
                        Message(ASSISTANT, Join(state.cache), NoneVal, NoneVal, tool_calls)),
     cache |-> <<>>,
     last_role |-> state.last_role]

\* the batch walked from its last request to its first
DispatchReversed(tool_calls) ==
    [i \in 1..Len(tool_calls) |-> tool_calls[Len(tool_calls) + 1 - i]]

\* line 65: for tool_call in tool_calls
DispatchOrder(tool_calls) == tool_calls

\* lines 51-64: the caller resumes the generator, which folds the fragment
Fold ==
    /\ UNCHANGED update_vars
    /\ pc = "fragment"
    /\ LET s0 == [history |-> llm_chat_history, cache |-> content_cache,
                  last_role |-> last_role]
           s1 == FoldRole(s0, response.role)
           s2 == FoldContent(s1, response.content)
           s3 == FoldToolCalls(s2, response.tool_calls)
       IN  IF response.tool_calls = <<>>
             THEN /\ SetHistory(s2.history)
                  /\ content_cache' = s2.cache
                  /\ last_role' = s2.last_role
                  /\ pc' = "iter"
                  /\ UNCHANGED <<pending, failure, dispatch_rounds, round_dispatched>>
             ELSE IF ~RoleContextOk(s2.last_role)
               THEN /\ SetHistory(s2.history)
                    /\ content_cache' = s2.cache
                    /\ last_role' = s2.last_role
                    /\ pc' = "raised"
                    /\ failure' = "AssertionError"
                    /\ UNCHANGED <<pending, dispatch_rounds, round_dispatched>>
               ELSE /\ SetHistory(s3.history)
                    /\ content_cache' = s3.cache
                    /\ last_role' = s3.last_role
                    /\ pending' = DispatchOrder(response.tool_calls)
                    /\ pc' = "dispatch"
                    /\ round_dispatched' = TRUE
                    /\ dispatch_rounds' = IF round_dispatched THEN dispatch_rounds
                                                              ELSE dispatch_rounds + 1
                    /\ UNCHANGED failure
    /\ one_tool_each' = (one_tool_each /\ Len(response.tool_calls) = 1
                                       /\ frags_in_round = 1
                                       /\ pc' = "dispatch")
    /\ UNCHANGED <<tool_call_counter, response, tool_call, backend, orig_history,
                   invocation, received, yielded, tool_log, model_calls,
                   frags_in_round>>

\* lines 65-69: the next request of the batch is taken and _call_tool is entered
CallTool ==
    /\ UNCHANGED update_vars
    /\ pc = "dispatch"
    /\ pending # <<>>
    /\ tool_call' = Head(pending)
    /\ pending' = Tail(pending)
    /\ tool_log' = Append(tool_log, [event |-> "call", id |-> Head(pending).id])
    /\ pc' = "in_tool"
    /\ UNCHANGED <<caller_history, llm_chat_history, last_role, content_cache,
                   tool_call_counter, response, backend, orig_history, invocation,
                   received, yielded, model_calls, frags_in_round,
                   dispatch_rounds, round_dispatched, one_tool_each, failure>>

\* a None result treated like any other result
ToolResAlwaysKept(tool_res) == TRUE

\* line 70: if tool_res is not None
ToolResIsNotNone(tool_res) == tool_res # NoneVal

\* the tool turn built without the id and the name of its request
ToolMessageUnlinked(tool_name, tool_id, tool_res) ==
    Message(TOOL, tool_res, NoneVal, NoneVal, <<>>)

\* line 71: Message(role=TOOL, content=tool_res, name=tool_name, tool_call_id=tool_id)
ToolMessage(tool_name, tool_id, tool_res) ==
    Message(TOOL, tool_res, tool_name, tool_id, <<>>)

\* lines 69-73: _call_tool returns or raises; a result that is not None is
\* appended and yielded, and the generator is then suspended at line 73
ToolReturn ==
    /\ UNCHANGED update_vars
    /\ pc = "in_tool"
    /\ \E outcome \in ToolOutcomes :
         LET tool_id == tool_call.id
             tool_name == tool_call.function.name
             tool_args == tool_call.function.arguments
             tool_res == IF outcome = "result" THEN ToolResult(tool_name, tool_args)
                                               ELSE NoneVal
             tool_message == ToolMessage(tool_name, tool_id, tool_res)
         IN  /\ tool_log' = Append(tool_log, [event |-> outcome, id |-> tool_id])
             /\ one_tool_each' = (one_tool_each /\ outcome = "result")
             /\ CASE outcome = "raise" ->
                       /\ pc' = "raised"
                       /\ failure' = "ToolError"
                       /\ UNCHANGED <<caller_history, llm_chat_history, yielded>>
                  [] outcome # "raise" /\ ToolResIsNotNone(tool_res) ->
                       /\ SetHistory(Append(llm_chat_history, tool_message))
                       /\ yielded' = Append(yielded, [kind |-> "tool", value |-> tool_message])
                       /\ pc' = "tool_message"
                       /\ UNCHANGED failure
                  [] outcome # "raise" /\ ~ToolResIsNotNone(tool_res) ->
                       /\ pc' = "dispatch"
                       /\ UNCHANGED <<caller_history, llm_chat_history, yielded, failure>>
    /\ UNCHANGED <<last_role, content_cache, tool_call_counter, response, pending,
                   tool_call, backend, orig_history, invocation, received,
                   model_calls, frags_in_round, dispatch_rounds, round_dispatched>>

\* line 73: the caller resumes the generator after the tool message
ResumeAfterToolMessage ==
    /\ UNCHANGED update_vars
    /\ pc = "tool_message"
    /\ pc' = "dispatch"
    /\ UNCHANGED <<caller_history, llm_chat_history, last_role, content_cache,
                   tool_call_counter, response, pending, tool_call, backend,
                   orig_history, invocation, received, yielded, tool_log,
                   model_calls, frags_in_round, dispatch_rounds,
                   round_dispatched, one_tool_each, failure>>

\* line 74: tool_call_counter += 1, after the for loop of line 65
EndBatch ==
    /\ UNCHANGED update_vars
    /\ pc = "dispatch"
    /\ pending = <<>>
    /\ tool_call_counter' = tool_call_counter + 1
    /\ pc' = "iter"
    /\ UNCHANGED <<caller_history, llm_chat_history, last_role, content_cache,
                   response, pending, tool_call, backend, orig_history, invocation,
                   received, yielded, tool_log, model_calls, frags_in_round,
                   dispatch_rounds, round_dispatched, one_tool_each, failure>>

\* the loop never left at line 80
LastTurnIgnored(history) == FALSE

\* line 79: llm_chat_history[-1][ROLE] != TOOL
LastTurnNotTool(history) == history[Len(history)].role # TOOL

\* lines 76-80: the fragment sequence is exhausted
StreamEnd ==
    /\ UNCHANGED update_vars
    /\ pc = "iter"
    /\ LET flushed == IF content_cache # <<>>
                        THEN Append(llm_chat_history,
                                    Message(last_role, Join(content_cache),
                                            NoneVal, NoneVal, <<>>))
                        ELSE llm_chat_history
       IN  /\ SetHistory(flushed)
           /\ content_cache' = <<>>
           /\ IF flushed = <<>>
                THEN /\ pc' = "raised"          \* llm_chat_history[-1] of an empty list
                     /\ failure' = "IndexError"
                ELSE /\ pc' = IF LastTurnNotTool(flushed) THEN "done" ELSE "loop"
                     /\ UNCHANGED failure
    /\ one_tool_each' = (one_tool_each /\ frags_in_round = 1)
    /\ UNCHANGED <<last_role, tool_call_counter, response, pending, tool_call,
                   backend, orig_history, invocation, received, yielded, tool_log,
                   model_calls, frags_in_round, dispatch_rounds, round_dispatched>>

\* the backend raises a transport failure instead of a fragment
BackendFails ==
    /\ UNCHANGED update_vars
    /\ pc = "iter"
    /\ pc' = "raised"
    /\ failure' = "TransportFailure"
    /\ one_tool_each' = FALSE
    /\ UNCHANGED <<caller_history, llm_chat_history, last_role, content_cache,
                   tool_call_counter, response, pending, tool_call, backend,
                   orig_history, invocation, received, yielded, tool_log,
                   model_calls, frags_in_round, dispatch_rounds, round_dispatched>>

\* the caller calls _run again with the same history object
Invoke ==
    /\ UNCHANGED update_vars
    /\ pc \in {"done", "raised"}
    /\ invocation = 1
    /\ invocation' = invocation + 1
    /\ Enter
    /\ UNCHANGED <<backend, orig_history>>

Next ==
    \/ CallModel
    \/ NextFragment
    \/ Fold
    \/ CallTool
    \/ ToolReturn
    \/ ResumeAfterToolMessage
    \/ EndBatch
    \/ StreamEnd
    \/ BackendFails
    \/ Invoke

Spec == Init /\ [][Next]_vars

\* the backend of the round-trip property
SpecRoundTrip == InitRoundTrip /\ [][Next]_vars

\* the caller keeps pulling values, the backend ends every fragment
\* sequence and every tool call returns: a step that can be taken is taken
FairSpec == Spec /\ WF_vars(Next)

\* the agent is not invoked while a composition is built and updated
InitUpdate == Start(GeneralBackend) /\ orig_history = <<>> /\ Composing

NextUpdate ==
    \/ SetAttr
    \/ CallUpdate
    \/ CallUpdateServer
    \/ CallStart
    \/ CallRestart
    \/ Descend
    \/ Collect
    \/ TrainPhase
    \/ TrainWait
    \/ DeployPhase
    \/ EvalPhase
    \/ TaskCompletes

\* the composition of units and one call of update
SpecUpdate == InitUpdate /\ [][NextUpdate]_vars

(***************************************************************************)
(* Views of the state used by the properties                               *)
(***************************************************************************)
\* the turns this invocation has appended to its history
Appended == SubSeq(llm_chat_history, Len(orig_history) + 1, Len(llm_chat_history))

IsToolCallTurn(turn) == turn.role = ASSISTANT /\ turn.tool_calls # <<>>

\* the appended assistant turns that carry tool_calls
ToolCallTurns == SelectSeq(Appended, IsToolCallTurn)

HasToolCalls(fragment) == fragment.tool_calls # <<>>

\* the received fragments that carry tool_calls
ToolCallFragments == SelectSeq(received, HasToolCalls)

IsPrefix(s, t) == Len(s) <= Len(t) /\ s = SubSeq(t, 1, Len(s))

BatchesOf(seq) == [i \in 1..Len(seq) |-> seq[i].tool_calls]

RECURSIVE RequestIds(_)
\* the ids of the requests of a sequence of batches, in order
RequestIds(batches) ==
    IF batches = <<>> THEN <<>>
    ELSE [i \in 1..Len(Head(batches)) |-> Head(batches)[i].id] \o RequestIds(Tail(batches))

IsCall(e) == e.event = "call"

IsResult(e) == e.event = "result"

IdsOf(events) == [i \in 1..Len(events) |-> events[i].id]

IsToolTurn(turn) == turn.role = TOOL

IsFragmentYield(y) == y.kind = "fragment"

IsToolYield(y) == y.kind = "tool"

ValuesOf(ys) == [i \in 1..Len(ys) |-> ys[i].value]

Ended == pc \in {"done", "raised"}

(***************************************************************************)
(* C1                                                                      *)
(***************************************************************************)
\* C1: every invocation of the loop terminates: when the caller keeps
\* pulling, every model call returns a finite fragment sequence and every
\* tool call returns, the invocation eventually reaches DONE or raises.
Termination == <>Ended

HistoryCopyIsolation ==
    /\ caller_history = orig_history
    /\ IsPrefix(orig_history, llm_chat_history)
    /\ (pc = "loop" /\ model_calls = 0) => llm_chat_history = orig_history

\* a second invocation on the same list has appended turns of its own
SecondInvocationAppended ==
    /\ invocation = 2
    /\ Len(llm_chat_history) > Len(orig_history) + 1
    /\ Ended

(***************************************************************************)
(* C4                                                                      *)
(***************************************************************************)
\* the tool turns that follow the turn at position j of the appended turns
\* up to the next turn that is no tool turn
RECURSIVE AnswersAfter(_, _)
AnswersAfter(turns, j) ==
    IF j + 1 > Len(turns) \/ ~IsToolTurn(turns[j + 1]) THEN <<>>
    ELSE <<turns[j + 1].tool_call_id>> \o AnswersAfter(turns, j + 1)

RECURSIVE IsSubsequence(_, _)
\* s can be obtained from t by leaving elements out
IsSubsequence(s, t) ==
    IF s = <<>> THEN TRUE
    ELSE IF t = <<>> THEN FALSE
    ELSE IF Head(s) = Head(t) THEN IsSubsequence(Tail(s), Tail(t))
    ELSE IsSubsequence(s, Tail(t))

\* C4: the tools of a batch are invoked one at a time and in request order,
\* and their result turns are appended to the history and yielded in that
\* order, after the assistant turn that carries the requests.
ToolDispatchOrder ==
    \* a call is followed by its own return before the next call
    /\ \A i \in 1..Len(tool_log) :
         IsCall(tool_log[i]) =>
           IF i = Len(tool_log) THEN pc = "in_tool" /\ tool_call.id = tool_log[i].id
           ELSE ~IsCall(tool_log[i + 1]) /\ tool_log[i + 1].id = tool_log[i].id
    \* the calls follow the requests of the appended assistant turns
    /\ IsPrefix(IdsOf(SelectSeq(tool_log, IsCall)), RequestIds(BatchesOf(ToolCallTurns)))
    \* the tool turns are the results, in the order of the returns
    /\ LET tool_turns == SelectSeq(Appended, IsToolTurn)
       IN  /\ [i \in 1..Len(tool_turns) |-> tool_turns[i].tool_call_id]
                = IdsOf(SelectSeq(tool_log, IsResult))
           /\ ValuesOf(SelectSeq(yielded, IsToolYield)) = tool_turns
    \* each tool turn stands behind the assistant turn it answers
    /\ \A j \in 1..Len(Appended) :
         /\ IsToolCallTurn(Appended[j]) =>
              IsSubsequence(AnswersAfter(Appended, j),
                            RequestIds(<<Appended[j].tool_calls>>))
         /\ IsToolTurn(Appended[j]) =>
              j > 1 /\ (IsToolTurn(Appended[j - 1]) \/ IsToolCallTurn(Appended[j - 1]))

\* the results of the batch [A, B, C] stand in the history and in the
\* yielded values in the order A, B, C
ThreeResultsInOrder ==
    /\ \E j \in 1..Len(Appended) :
         /\ Appended[j].tool_calls = TcABC
         /\ AnswersAfter(Appended, j) = <<"A", "B", "C">>
    /\ IsSubsequence(<<"A", "B", "C">>,
                     [i \in 1..Len(SelectSeq(yielded, IsToolYield)) |->
                        SelectSeq(yielded, IsToolYield)[i].value.tool_call_id])

(***************************************************************************)
(* C5                                                                      *)
(***************************************************************************)
IsNotToolTurn(turn) == ~IsToolTurn(turn)

\* every received fragment has been folded
AllFolded == pc # "fragment"

\* C5: the fragment sequence [{assistant, "Hi"}, {" there"}, {assistant,
\* tool_calls}] is assembled into exactly one assistant turn, with content
\* "Hi there" and the tool_calls, and into no turn with empty content.
RoundTripOneTurn ==
    (received = RoundTripFragments /\ AllFolded) =>
        SelectSeq(Appended, IsNotToolTurn)
          = << Message(ASSISTANT, "Hi there", NoneVal, NoneVal, TcABC) >>

(***************************************************************************)
(* C6                                                                      *)
(***************************************************************************)
\* C6: a failure of a single tool call never ends the invocation: no
\* invocation is ended by the exception of a tool call.
ToolFailureRecovered == failure # "ToolError"

(***************************************************************************)
(* C7                                                                      *)
(***************************************************************************)
\* C7: the appended assistant turns with tool_calls carry, one for one and
\* in order, the tool_calls of the received fragments with tool_calls, and
\* when the invocation has not failed and every received fragment is
\* folded there is exactly one such turn for each such fragment.
OneTurnPerToolCallFragment ==
    /\ IsPrefix(BatchesOf(ToolCallTurns), BatchesOf(ToolCallFragments))
    /\ (AllFolded /\ pc # "raised") =>
          BatchesOf(ToolCallTurns) = BatchesOf(ToolCallFragments)
    /\ \A i \in 1..Len(Appended) :
          Appended[i].tool_calls # <<>> => Appended[i].role = ASSISTANT

\* an invocation that ended without failure after two fragments with
\* tool_calls, one of them a batch of three
TwoToolCallFragmentsDone ==
    /\ pc = "done"
    /\ Len(ToolCallFragments) = 2
    /\ \E i \in 1..2 : ToolCallFragments[i].tool_calls = TcABC

(***************************************************************************)
(* C8                                                                      *)
(***************************************************************************)
\* the role a fragment is folded in: its own, or the one left open
OpenRole(fragment) == IF Truthy(fragment.role) THEN fragment.role ELSE last_role

\* the step that folds a fragment with tool_calls in a role other than assistant
ViolationStep ==
    /\ pc = "fragment"
    /\ invocation' = invocation
    /\ HasToolCalls(response)
    /\ OpenRole(response) # ASSISTANT

\* C8: folding a fragment with tool_calls while the open role is not
\* assistant raises; the step appends no turn for the fragment (at most the
\* text that was open before it), dispatches none of its tool calls, and
\* the invocation that has raised takes no further step.
ProtocolViolationIsFatal ==
    /\ [][ViolationStep =>
            /\ pc' = "raised"
            /\ failure' = "AssertionError"
            /\ tool_log' = tool_log
            /\ pending' = pending
            /\ model_calls' = model_calls
            /\ \/ llm_chat_history' = llm_chat_history
               \/ /\ content_cache # <<>>
                  /\ llm_chat_history' =
                       Append(llm_chat_history,
                              Message(last_role, Join(content_cache),
                                      NoneVal, NoneVal, <<>>))]_vars
    /\ [][pc = "raised" => invocation' # invocation]_vars
    /\ [](pc \in {"dispatch", "in_tool", "tool_message"} => last_role = ASSISTANT)

\* a violation in a later model call, by a fragment without a role: the
\* open role is the one an earlier model call left
ViolationInOpenRole ==
    /\ failure = "AssertionError"
    /\ response.role = NoneVal
    /\ model_calls >= 2
    /\ Len(received) >= 2

(***************************************************************************)
(* C9                                                                      *)
(***************************************************************************)
\* C9: the yielded values without the tool messages are the received
\* fragments, unchanged, once each and in order; a fragment is yielded in
\* the step that receives it, which folds nothing and dispatches nothing,
\* and it is folded only after that.
PassThroughStreaming ==
    /\ [](ValuesOf(SelectSeq(yielded, IsFragmentYield)) = received)
    /\ [](pc = "fragment" =>
            /\ received # <<>>
            /\ response = received[Len(received)]
            /\ yielded[Len(yielded)] = [kind |-> "fragment", value |-> response])
    /\ [][(received' # received /\ invocation' = invocation) =>
            /\ received' = Append(received, response')
            /\ yielded' = Append(yielded, [kind |-> "fragment", value |-> response'])
            /\ pc' = "fragment"
            /\ llm_chat_history' = llm_chat_history
            /\ content_cache' = content_cache
            /\ last_role' = last_role
            /\ tool_log' = tool_log]_vars
    /\ [][(invocation' = invocation
            /\ (llm_chat_history' # llm_chat_history \/ tool_log' # tool_log
                  \/ content_cache' # content_cache)) => received' = received]_vars

\* fragments of two model calls and a tool message between them were yielded
StreamedAcrossRounds ==
    /\ model_calls = 2
    /\ Len(received) = 2
    /\ Len(yielded) = 3
    /\ yielded[2].kind = "tool"
    /\ AllFolded

(***************************************************************************)
(* C10                                                                     *)
(***************************************************************************)
\* C10: the counter is incremented by one for each model call in which
\* tool calls were dispatched: at the end of every model call it equals
\* the number of model calls that dispatched tools.
CounterCountsRounds ==
    pc \in {"loop", "done"} => tool_call_counter = dispatch_rounds

\* ---------------------------------------------------------------------------
\* C11

\* the step of lines 76-80: the fragment sequence of a round is exhausted
RoundEnds == pc = "iter" /\ pc' \notin {"iter", "fragment"} /\ failure' # "TransportFailure"

\* the last turn of a history is a tool turn
EndsWithToolTurn(history) == history # <<>> /\ history[Len(history)].role = TOOL

\* C11: after each round, with the pending content flushed, the loop makes
\* another model call if and only if the last turn of the history is a tool
\* turn and the counter is below the maximum; otherwise the invocation is done
RoundEndDecision ==
    /\ [][RoundEnds =>
            pc' = IF EndsWithToolTurn(llm_chat_history') THEN "loop" ELSE "done"]_vars
    /\ [][pc = "loop" /\ model_calls > 0 /\ invocation' = invocation =>
            pc' = IF EndsWithToolTurn(llm_chat_history)
                     /\ tool_call_counter < MAX_CONSECUTIVE_TOOL_CALL_NUM
                    THEN "iter" ELSE "done"]_vars

\* ---------------------------------------------------------------------------
\* C15

\* the step in which the tool call under way ends with the given outcome
ToolEndsWith(outcome) ==
    /\ pc = "in_tool"
    /\ tool_log' = Append(tool_log, [event |-> outcome, id |-> tool_call.id])

\* C15: a tool call whose result is None produces no turn: nothing is appended
\* and nothing is yielded for it, the requests left in the batch are still
\* dispatched in order, and every result that is not None is appended to the
\* history and yielded as a tool turn
NoneResultSkipped ==
    /\ [][ToolEndsWith("none") =>
            /\ llm_chat_history' = llm_chat_history
            /\ yielded' = yielded
            /\ pending' = pending
            /\ pc' = "dispatch"]_vars
    /\ [][pc = "dispatch" /\ pending # <<>> =>
            /\ pc' = "in_tool"
            /\ tool_call' = Head(pending)
            /\ pending' = Tail(pending)]_vars
    /\ [][ToolEndsWith("result") =>
            \E turn \in {llm_chat_history'[Len(llm_chat_history')]} :
                /\ llm_chat_history' = Append(llm_chat_history, turn)
                /\ yielded' = Append(yielded, [kind |-> "tool", value |-> turn])
                /\ turn.role = TOOL
                /\ turn.tool_call_id = tool_call.id
                /\ turn.content # NoneVal]_vars
    /\ [](IdsOf(SelectSeq(tool_log, IsResult))
            = [i \in 1..Len(SelectSeq(Appended, IsToolTurn)) |->
                 SelectSeq(Appended, IsToolTurn)[i].tool_call_id])

\* the first request of a batch returned None and the second one a result,
\* which is the only tool turn of the history
ResultAfterNone ==
    /\ Len(tool_log) = 4
    /\ tool_log[2].event = "none"
    /\ tool_log[4].event = "result"
    /\ Len(SelectSeq(Appended, IsToolTurn)) = 1
    /\ Len(SelectSeq(yielded, IsToolYield)) = 1

\* ---------------------------------------------------------------------------
\* C16

\* the tool turn answers a request of the batch
AnswersRequestOf(turn, tool_calls) ==
    \E r \in 1..Len(tool_calls) :
        /\ tool_calls[r].id = turn.tool_call_id
        /\ tool_calls[r].function.name = turn.name

TextOf(content) == IF Truthy(content) THEN content ELSE ""

RECURSIVE Contents(_)
\* the concatenation of the content of fragments or turns, in order
Contents(seq) ==
    IF seq = <<>> THEN "" ELSE TextOf(Head(seq).content) \o Contents(Tail(seq))

\* the fold of a fragment that has a role while content is open
RoleBoundaryStep ==
    /\ pc = "fragment"
    /\ pc' # "fragment"
    /\ Truthy(response.role)
    /\ content_cache # <<>>

TurnRoles == {"system", USER, ASSISTANT, TOOL}

\* C19: every turn the loop appends to the history has a role among system,
\* user, assistant and tool; no turn with an unset role is ever appended
AppendedTurnsHaveRole ==
    \A i \in 1..Len(Appended) : Appended[i].role \in TurnRoles

\* ---------------------------------------------------------------------------
\* C20

\* the position in the output stream of the first fragment of the round
RoundStart ==
    CHOOSE i \in 1..Len(yielded) :
        /\ IsFragmentYield(yielded[i])
        /\ Cardinality({j \in 1..i : IsFragmentYield(yielded[j])})
             = Len(received) - frags_in_round + 1

\* the tool turns yielded since the model call of the round
RoundToolResults ==
    IF frags_in_round = 0 THEN <<>>
    ELSE SelectSeq(SubSeq(yielded, RoundStart, Len(yielded)), IsToolYield)

RECURSIVE Flatten(_)
Flatten(seqs) == IF seqs = <<>> THEN <<>> ELSE Head(seqs) \o Flatten(Tail(seqs))

RECURSIVE PostOrder(_)
\* the units below and including `unit`: for each child in registration order
\* the child's own post-order, then the unit itself
PostOrder(unit) ==
    Flatten([i \in 1..Len(submodules[unit]) |-> PostOrder(submodules[unit][i])])
      \o <<unit>>

\* the order in which a call of update has to ask the units
AskOrder == IF recursive THEN PostOrder(ROOT) ELSE <<ROOT>>

\* the descriptors of one phase the units of `units` return, in that order
DescriptorsOf(units, phase) ==
    LET Has(unit) == CASE phase = "train" -> GetTrainTasks(unit) # NoDescriptor
                       [] phase = "deploy" -> GetDeployTasks(unit) # NoDescriptor
                       [] phase = "eval" -> GetEvalTasks(unit) # NoDescriptor
        having == SelectSeq(units, Has)
    IN  [i \in 1..Len(having) |-> Task(having[i], phase)]

\* the walk of update is over
Collected == upc \notin {"compose", "walk", "failed"}

\* C12: update collects in post-order: a unit is asked for its descriptors only
\* after all its children, with their descendants, have been asked, children
\* in registration order; each of the three collections holds the descriptors
\* in the order in which the units were asked
PostOrderCollection ==
    /\ upc # "compose" => IsPrefix(asked, AskOrder)
    /\ Collected => asked = AskOrder
    /\ upc # "compose" =>
          /\ train_tasks = DescriptorsOf(asked, "train")
          /\ deploy_tasks = DescriptorsOf(asked, "deploy")
          /\ eval_tasks = DescriptorsOf(asked, "eval")

\* the tree root -> [child1, child2] of three trainable units collected
TreeCollected ==
    /\ Collected
    /\ submodules = [u \in Units |-> IF u = ROOT THEN <<"child1", "child2">> ELSE <<>>]
    /\ train_tasks = <<Task("child1", "train"), Task("child2", "train"), Task(ROOT, "train")>>
    /\ deploy_tasks = <<Task("child1", "deploy"), Task("child2", "deploy"), Task(ROOT, "deploy")>>

\* ---------------------------------------------------------------------------
\* C13

\* how often a value occurs in a sequence
Count(seq, value) == Cardinality({i \in 1..Len(seq) : seq[i] = value})

\* C13: in one pass every unit is asked at most once, and exactly once when it
\* is the root or, with recursive set, below the root; it contributes at most
\* one descriptor to each phase and no placeholder; with recursive unset only
\* the root is asked
EachUnitVisitedOnce ==
    /\ \A unit \in Units :
          /\ Count(asked, unit) <= 1
          /\ Count(train_tasks, Task(unit, "train")) <= 1
          /\ Count(deploy_tasks, Task(unit, "deploy")) <= 1
          /\ Count(eval_tasks, Task(unit, "eval")) <= 1
    /\ Count(train_tasks, NoDescriptor) = 0
    /\ Count(deploy_tasks, NoDescriptor) = 0
    /\ Count(eval_tasks, NoDescriptor) = 0
    /\ Collected =>
          \A unit \in Units :
              Count(AskOrder, unit) > 0 => Count(asked, unit) = 1
    /\ Collected /\ ~recursive => asked = <<ROOT>>

\* ---------------------------------------------------------------------------
\* C14

\* C14: a call of update in mode train does not return before every eval task
\* it collected has finished
EvalTasksWaitedOn ==
    upc = "returned" /\ mode = "train" =>
        /\ launched["eval"] = Len(eval_tasks)
        /\ completed["eval"] = launched["eval"]

\* ---------------------------------------------------------------------------
\* C17

\* the step in which the batch of a phase is started
Starts(phase) == phase \notin started /\ phase \in started'

\* C17: in mode train all train tasks are started as one batch and the batch
\* has finished before a deploy task is started, and the deploy tasks are
\* started before the eval tasks; in mode server (update_server, start,
\* restart) no train and no eval task is started, only the deploy tasks; a
\* phase with an empty collection starts nothing
PhaseOrdering ==
    /\ [][Starts("train") =>
            /\ mode = "train"
            /\ launched'["train"] = Len(train_tasks)
            /\ started = {}]_vars
    /\ [][Starts("deploy") =>
            /\ launched'["deploy"] = Len(deploy_tasks)
            /\ completed["train"] = launched["train"]
            /\ mode = "train" => launched["train"] = Len(train_tasks)
            /\ "eval" \notin started]_vars
    /\ [][Starts("eval") =>
            /\ mode = "train"
            /\ launched'["eval"] = Len(eval_tasks)
            /\ launched["deploy"] = Len(deploy_tasks)]_vars
    /\ [](entry \in {"update_server", "start", "restart"} => mode = "server")
    /\ [](mode = "server" => launched["train"] = 0 /\ launched["eval"] = 0)
    /\ [](\A phase \in started : launched[phase] > 0)
    /\ [](upc = "returned" =>
            /\ launched["deploy"] = Len(deploy_tasks)
            /\ mode = "train" =>
                  /\ launched["train"] = Len(train_tasks)
                  /\ launched["eval"] = Len(eval_tasks))

\* a call in mode train has returned after it started two train tasks, which
\* finished, then deploy tasks and then eval tasks
AllPhasesStarted ==
    /\ upc = "returned"
    /\ mode = "train"
    /\ started = {"train", "deploy", "eval"}
    /\ launched["train"] = 2
    /\ completed["train"] = 2

\* ---------------------------------------------------------------------------
\* C21

\* the three getter calls made on a unit, in the order of lines 62-64
GettersOf(unit) == <<Task(unit, "train"), Task(unit, "deploy"), Task(unit, "eval")>>

\* a unit the walk reaches has a getter that raises
SomeGetterFails == \E i \in 1..Len(AskOrder) : GetTrainTasks(AskOrder[i]) = RuntimeError

\* C21: in every mode, server included, update calls the train, deploy and eval
\* getter of every unit it visits; when a getter of a visited unit raises,
\* update fails during the collection: no train, deploy or eval task has been
\* or will be launched
CollectionFailsFirst ==
    /\ [](upc # "compose" =>
            getter_calls =
              Flatten([i \in 1..Len(asked) |-> GettersOf(asked[i])])
                \o (IF upc = "failed"
                      THEN <<Task(AskOrder[Len(asked) + 1], "train")>>
                      ELSE <<>>))
    /\ [](upc = "failed" => GetTrainTasks(AskOrder[Len(asked) + 1]) = RuntimeError)
    /\ [](upc # "compose" /\ SomeGetterFails =>
            /\ upc \in {"walk", "failed"}
            /\ started = {}
            /\ launched = NoTasks
            /\ completed = NoTasks)
    /\ [][upc = "failed" => UNCHANGED update_vars]_vars

\* start() has failed at the getter of the second unit it visited, after the
\* three getters of the first one were called
FailedInServerMode ==
    /\ upc = "failed"
    /\ entry = "start"
    /\ mode = "server"
    /\ Len(asked) = 1
    /\ Len(getter_calls) = 4
    /\ getter_calls[4].phase = "train"
    /\ started = {}

====
